---- MODULE Spec2Model ----
(***************************************************************************)
(* Model of the AI Job Applier browser extension: the popup's JobApplier   *)
(* (job queue, pipeline controller), the background service worker that    *)
(* holds applicationState, chrome.storage.local, and the LinkedIn tab in   *)
(* which the injected scripts run.                                         *)
(*                                                                         *)
(* Every handler of the popup is a function from a record of the whole     *)
(* state (a "world" w) to the world after the handler.  JavaScript runs a  *)
(* handler to completion; the handlers are cut only where the code waits   *)
(* for a timer, for the AI request or for a script running in the page.    *)
(***************************************************************************)
EXTENDS Integers, Sequences, FiniteSets, Bags, TLC

\* ---------------------------------------------------------------- bounds
MaxIds == 2          \* distinct post_ids the LinkedIn pages can show
MaxBatch == 2        \* job cards in one JOBS_SCRAPED message
MaxQueue == 2        \* length of jobQueue
MaxListeners == 2    \* content-message listeners registered in one popup
MaxTasks == 2        \* timers and requests pending in the popup
MaxScripts == 1      \* injected scripts pending in the page
MaxBgTimers == 1     \* pending 5 s timeouts of the background
MaxSubmits == 2      \* submitApplication calls per post_id the history counts
                     \* (further calls leave the count there)
MaxClicks == 4       \* user operations over a run: opening and closing the
                     \* popup, and clicks on its buttons other than Save
MaxFaults == 1       \* failures over a run: chrome calls that throw, failed
                     \* requests, failure reports of the page

Ids == 1..MaxIds

\* ------------------------------------------------------------------ data
\* A job as the injected scraper creates it (status 'pending'); the optional
\* fields are absent until the pipeline sets them.
NewJob(id) ==
    [post_id |-> id, status |-> "pending", description |-> "none",
     matchScore |-> <<>>, coverLetter |-> "none", error |-> "none",
     appliedDate |-> FALSE]

\* An object of an array that nothing names any more
Garbage == [NewJob(0) EXCEPT !.status = "garbage"]

\* this.currentJob and the job a pending continuation holds: null, an element
\* of a jobQueue array (g: which array, i: its index), or an object received
\* in a message: a copy that no array holds (i: its post_id).  Of a copy the
\* code reads post_id, url, jobTitle and coverLetter and writes status and
\* error, which nothing reads afterwards: the model keeps the post_id.
NULL == [k |-> "null", g |-> 0, i |-> 0]
QRef(g, i) == [k |-> "q", g |-> g, i |-> i]
Copy(id) == [k |-> "copy", g |-> 0, i |-> id]

\* A job as a message carries it: <<>> is null, <<id>> the job with that id.
FromMessage(m) == IF m = <<>> THEN NULL ELSE Copy(m[1])

\* error.message and the other texts stored in job.error: the code tests
\* them for presence only
ErrorText == "error"

Url(site, id) == [site |-> site, id |-> id]

Task(t, id, ref) == [t |-> t, id |-> id, ref |-> ref]
Script(t, id) == [t |-> t, id |-> id]

\* let applicationState = {isProcessing: false, currentJob: null, jobQueue: []}
InitialApplicationState ==
    [isProcessing |-> FALSE, currentJob |-> <<>>, jobQueue |-> <<>>]

\* The service worker of background.js: running, or stopped by the browser
\* (its variables and timers are gone) until the next event starts it.
Running == "run"
Stopped == "stopped"

Min(S) == CHOOSE x \in S : \A y \in S : x <= y

AddTo(bag, x) == bag (+) SetToBag({x})
RemoveFrom(bag, x) == bag (-) SetToBag({x})

\* ----------------------------------------------------------------- state
VARIABLES
    popup,          \* the popup page exists
    jobQueue,       \* this.jobQueue
    oldQueues,      \* arrays this.jobQueue no longer names (after clearAllData)
    currentJob,     \* this.currentJob
    isProcessing,   \* this.isProcessing
    isPaused,       \* this.isPaused
    reviewVisible,  \* #review-section has class 'active'
    btnProcessing,  \* Start disabled and Pause shown (last updateButtons)
    listeners,      \* listeners added by injectJobScrapingScript
    tasks,          \* pending timers and requests of the popup (a bag)
    tabUrl,         \* the active tab's page
    pageScripts,    \* injected scripts that have not reported yet (a bag)
    bgState,        \* background.js applicationState
    bgTimers,       \* pending setTimeout(..., 5000) of continueProcessing
    bgBoot,         \* the service worker runs or is stopped
    stJobQueue,     \* chrome.storage.local jobQueue
    stAppState,     \* chrome.storage.local applicationState (<<>>: absent)
    settings,       \* keywords, criteria, cv and llmToken are all stored
    submitCount,    \* history: submitApplication calls per post_id
    failed,         \* history: the steps that failed for a stored Job, each
                    \* with the post_id of the Job it was made for
    clicks,         \* history: user operations so far
    faults          \* history: failures so far

vars == <<popup, jobQueue, oldQueues, currentJob, isProcessing, isPaused,
          reviewVisible, btnProcessing, listeners, tasks, tabUrl, pageScripts,
          bgState, bgTimers, bgBoot, stJobQueue, stAppState, settings,
          submitCount, failed, faults, clicks>>

World ==
    [popup |-> popup, jobQueue |-> jobQueue, oldQueues |-> oldQueues,
     currentJob |-> currentJob, isProcessing |-> isProcessing,
     isPaused |-> isPaused, reviewVisible |-> reviewVisible,
     btnProcessing |-> btnProcessing, listeners |-> listeners,
     tasks |-> tasks, tabUrl |-> tabUrl, pageScripts |-> pageScripts,
     bgState |-> bgState, bgTimers |-> bgTimers, bgBoot |-> bgBoot,
     stJobQueue |-> stJobQueue,
     stAppState |-> stAppState, settings |-> settings,
     submitCount |-> submitCount, failed |-> failed,
     faults |-> faults, clicks |-> clicks]

\* The model's bounds, as a guard on the state an action leads to.
Bounded(w) ==
    /\ Len(w.jobQueue) <= MaxQueue
    /\ w.listeners <= MaxListeners
    /\ BagCardinality(w.tasks) <= MaxTasks
    /\ BagCardinality(w.pageScripts) <= MaxScripts
    /\ w.bgTimers <= MaxBgTimers
    /\ w.faults <= MaxFaults
    /\ w.clicks <= MaxClicks

\* The arrays clearAllData dropped, without the objects that neither
\* this.currentJob nor a pending continuation names any more.
Collected(w) ==
    LET named == {w.currentJob} \cup {t.ref : t \in BagToSet(w.tasks)}
    IN [g \in DOMAIN w.oldQueues |->
           IF \A i \in DOMAIN w.oldQueues[g] : QRef(g, i) \notin named
           THEN <<>>
           ELSE [i \in DOMAIN w.oldQueues[g] |->
                    IF QRef(g, i) \in named THEN w.oldQueues[g][i]
                    ELSE Garbage]]

Becomes(w) ==
    /\ Bounded(w)
    /\ popup' = w.popup
    /\ jobQueue' = w.jobQueue
    /\ oldQueues' = Collected(w)
    /\ currentJob' = w.currentJob
    /\ isProcessing' = w.isProcessing
    /\ isPaused' = w.isPaused
    /\ reviewVisible' = w.reviewVisible
    /\ btnProcessing' = w.btnProcessing
    /\ listeners' = w.listeners
    /\ tasks' = w.tasks
    /\ tabUrl' = w.tabUrl
    /\ pageScripts' = w.pageScripts
    /\ bgState' = w.bgState
    /\ bgTimers' = w.bgTimers
    /\ bgBoot' = w.bgBoot
    /\ stJobQueue' = w.stJobQueue
    /\ stAppState' = w.stAppState
    /\ settings' = w.settings
    /\ submitCount' = w.submitCount
    /\ failed' = w.failed
    /\ faults' = w.faults
    /\ clicks' = w.clicks

\* ------------------------------------------------ job objects and storage
\* The number of the array this.jobQueue names now.
Gen(w) == Len(w.oldQueues) + 1

\* An operation of the user, and a failure: the history counts them.
Click(w) == [w EXCEPT !.clicks = @ + 1]
Failure(w) == [w EXCEPT !.faults = @ + 1]

\* A step of the pipeline fails for job id: the history records it.
JobFailure(w, step, id) ==
    [Failure(w) EXCEPT !.failed = @ \cup {[step |-> step, id |-> id]}]

\* The ids of the Jobs for which a step has failed
FailedAt(f, step) == {r.id : r \in {x \in f : x.step = step}}

\* The element of a jobQueue array that r names
Deref(w, r) ==
    IF r.g = Gen(w) THEN w.jobQueue[r.i] ELSE w.oldQueues[r.g][r.i]

PostId(w, r) == IF r.k = "copy" THEN r.i ELSE Deref(w, r).post_id


\* {...applicationState, ...message.state}; and the fields of an object
\* after assignments to some of them
Merge(state, partial) ==
    [f \in DOMAIN state |->
        IF f \in DOMAIN partial THEN partial[f] ELSE state[f]]

\* Assignments to fields of the object r names
Assign(w, r, fields) ==
    IF r.k = "copy" THEN w
    ELSE IF r.g = Gen(w) THEN [w EXCEPT !.jobQueue[r.i] = Merge(@, fields)]
    ELSE [w EXCEPT !.oldQueues[r.g][r.i] = Merge(@, fields)]

\* this.jobQueue.find(j => j.post_id === jobId): the first match, or null
FindJob(w, jobId) ==
    LET hits == {i \in DOMAIN w.jobQueue : w.jobQueue[i].post_id = jobId}
    IN IF hits = {} THEN NULL ELSE QRef(Gen(w), Min(hits))

saveJobQueue(w) == [w EXCEPT !.stJobQueue = w.jobQueue]

updateButtons(w) == [w EXCEPT !.btnProcessing = w.isProcessing]

\* updateStats and renderJobList only draw; updateButtons is the state.
updateUI(w) == updateButtons(w)

\* ------------------------------------------------------------ background
\* The browser stops the service worker.
bgTerminate(w) ==
    [w EXCEPT !.bgBoot = Stopped, !.bgState = InitialApplicationState,
              !.bgTimers = 0]

\* chrome.storage.local.get(['applicationState']).then(result => ...) of the
\* worker's first lines, with what the storage held when it was started
bgRestored(w, stored) ==
    IF stored = <<>> THEN w
    ELSE [w EXCEPT !.bgState = Merge(@, stored[1])]

\* An event without a message of the popup reaches the service worker
\* (chrome.tabs.onUpdated, a message of an injected script): a stopped worker
\* is started, and the get of its first lines resolves.
bgWake(w) ==
    IF w.bgBoot = Running THEN w
    ELSE bgRestored([w EXCEPT !.bgBoot = Running], w.stAppState)

saveApplicationState(w) == [w EXCEPT !.stAppState = <<w.bgState>>]

\* background.js continueProcessing: arms the 5 s timeout
bgContinueProcessing(w) ==
    IF ~w.bgState.isProcessing \/ w.bgState.currentJob = <<>> THEN w
    ELSE [w EXCEPT !.bgTimers = @ + 1]

\* An update that is merged and not saved
bgUpdateUnsaved(w, state) == [w EXCEPT !.bgState = Merge(@, state)]

\* onMessage, type UPDATE_APPLICATION_STATE
bgUpdate(w, state) ==
    LET w1 == saveApplicationState([w EXCEPT !.bgState = Merge(@, state)])
    IN IF w1.bgState.isProcessing THEN bgContinueProcessing(w1) ELSE w1

\* UPDATE_APPLICATION_STATE reaches the service worker.  When the message
\* starts a stopped worker, the listener handles it before the get of the
\* worker's first lines resolves.  (The other order is that of a worker that
\* another event had started just before.)
bgOnUpdate(w, state) ==
    IF w.bgBoot = Stopped
    THEN bgRestored(bgUpdate([w EXCEPT !.bgBoot = Running], state),
                    w.stAppState)
    ELSE bgUpdate(w, state)

\* onMessage, type GET_APPLICATION_STATE: the state it answers with
bgOnGet(w) ==
    IF w.bgBoot = Stopped THEN InitialApplicationState ELSE w.bgState

\* The background stores message.state.jobQueue and never reads it: the model
\* keeps which jobs it holds, not their fields.
PostIds(queue) == [i \in DOMAIN queue |-> queue[i].post_id]

updateBackgroundState(w) ==
    bgOnUpdate(w,
        [isProcessing |-> w.isProcessing,
         currentJob |-> IF w.currentJob.k = "null" THEN <<>>
                        ELSE <<PostId(w, w.currentJob)>>,
         jobQueue |-> PostIds(w.jobQueue)])

\* ------------------------------------------------------------- pipeline
\* scrapeJobDescription: navigates the tab to the job (the page's pending
\* scripts end with the page, and chrome.tabs.onUpdated reaches the service
\* worker), then waits 3 s before injecting the scraper.
scrapeJobDescription(w, job) ==
    LET id == PostId(w, job)
    IN [bgWake(w) EXCEPT !.tabUrl = Url("job", id),
                 !.pageScripts = EmptyBag,
                 !.tasks = AddTo(@, Task("inject", id, NULL))]

\* A scheduling loop that takes the last pending job instead of the first
processJobQueueLast(w, navOk) ==
    IF w.isPaused THEN w
    ELSE LET pending == {i \in DOMAIN w.jobQueue :
                            w.jobQueue[i].status = "pending"}
         IN IF pending = {}
            THEN updateButtons([w EXCEPT !.isProcessing = FALSE])
            ELSE LET last == CHOOSE i \in pending : \A j \in pending : j <= i
                     nextJob == QRef(Gen(w), last)
                     w1 == [w EXCEPT !.currentJob = nextJob]
                 IN IF navOk THEN scrapeJobDescription(w1, nextJob)
                    ELSE LET w2 == Assign(JobFailure(w1, "navigate",
                                                 PostId(w1, nextJob)),
                                      nextJob,
                                      [status |-> "skipped",
                                       error |-> ErrorText])
                             w3 == updateUI(saveJobQueue(w2))
                         IN [w3 EXCEPT
                                !.tasks = AddTo(@, Task("pq", 0, NULL))]

\* navOk: chrome.tabs.query/update of scrapeJobDescription did not throw
processJobQueue(w, navOk) ==
    IF w.isPaused THEN w
    ELSE LET pending == {i \in DOMAIN w.jobQueue :
                            w.jobQueue[i].status = "pending"}
         IN IF pending = {}
            THEN updateButtons([w EXCEPT !.isProcessing = FALSE])
            ELSE LET nextJob == QRef(Gen(w), Min(pending))
                     w1 == [w EXCEPT !.currentJob = nextJob]
                 IN IF navOk THEN scrapeJobDescription(w1, nextJob)
                    ELSE LET w2 == Assign(JobFailure(w1, "navigate",
                                                 PostId(w1, nextJob)),
                                      nextJob,
                                      [status |-> "skipped",
                                       error |-> ErrorText])
                             w3 == updateUI(saveJobQueue(w2))
                         IN [w3 EXCEPT
                                !.tasks = AddTo(@, Task("pq", 0, NULL))]

\* popup continueProcessing
continueProcessing(w, navOk) ==
    IF ~w.isProcessing \/ w.currentJob.k = "null" THEN w
    ELSE processJobQueue(updateButtons(w), navOk)

\* A filter that lets every job of the batch through
allJobs(w, newJobs) == newJobs

\* const uniqueJobs = newJobs.filter(job => !existingIds.has(job.post_id))
uniqueJobs(w, newJobs) ==
    LET existingIds == {w.jobQueue[i].post_id : i \in DOMAIN w.jobQueue}
    IN SelectSeq(newJobs, LAMBDA job : job.post_id \notin existingIds)

\* A handler that replaces the queue by the new jobs instead of appending
handleScrapedJobsReplace(w, newJobs) ==
    IF newJobs = <<>> \/ uniqueJobs(w, newJobs) = <<>>
    THEN updateButtons([w EXCEPT !.isProcessing = FALSE])
    ELSE saveJobQueue([w EXCEPT !.jobQueue = uniqueJobs(w, newJobs)])

\* handleScrapedJobs up to its first await (the push and the storage write)
handleScrapedJobsSync(w, newJobs) ==
    IF newJobs = <<>> \/ uniqueJobs(w, newJobs) = <<>>
    THEN updateButtons([w EXCEPT !.isProcessing = FALSE])
    ELSE saveJobQueue([w EXCEPT !.jobQueue = @ \o uniqueJobs(w, newJobs)])

\* handleScrapedJobs after the await
handleScrapedJobsRest(w, navOk) == processJobQueue(updateUI(w), navOk)

handleScrapedJobs(w, newJobs, navOk) ==
    IF newJobs = <<>> \/ uniqueJobs(w, newJobs) = <<>>
    THEN handleScrapedJobsSync(w, newJobs)
    ELSE handleScrapedJobsRest(handleScrapedJobsSync(w, newJobs), navOk)

\* analyzeJobWithAI up to its request: the request is pending
analyzeJobWithAI(w, job) == [w EXCEPT !.tasks = AddTo(@, Task("ai", 0, job))]

handleJobDescription(w, jobId, description, error) ==
    LET job == FindJob(w, jobId)
    IN IF error # "none"
       THEN IF job.k = "null" THEN w
            ELSE LET w1 == Assign(w, job, [status |-> "skipped",
                                         error |-> error])
                     w2 == updateUI(saveJobQueue(w1))
                 IN [w2 EXCEPT !.tasks = AddTo(@, Task("pq", 0, NULL))]
       ELSE IF job.k = "null" THEN w
            ELSE LET w1 == Assign(w, job, [description |-> description])
                 IN analyzeJobWithAI(saveJobQueue(w1), job)

handleApplicationSubmitted(w, jobId, success, error) ==
    LET job == FindJob(w, jobId)
    IN IF job.k = "null" THEN w
       ELSE LET w1 == IF success
                      THEN Assign(w, job, [status |-> "applied",
                                         appliedDate |-> TRUE])
                      ELSE Assign(w, job, [status |-> "skipped",
                                         error |-> IF error # "none"
                                                   THEN error
                                                   ELSE ErrorText])
            IN updateUI(saveJobQueue(w1))

showReviewSection(w, job) ==
    updateButtons([w EXCEPT !.reviewVisible = TRUE, !.isProcessing = FALSE])

hideReviewSection(w) == [w EXCEPT !.reviewVisible = FALSE]

\* analyzeJobWithAI after its request: ok is a response that parsed
analyzeJobWithAIResult(w, job, ok) ==
    IF ok
    THEN LET w1 == Assign(w, job, [matchScore |-> <<82>>,
                                 coverLetter |-> "letter",
                                 status |-> "reviewing"])
         IN showReviewSection(updateUI(saveJobQueue(w1)), job)
    ELSE LET w1 == Assign(JobFailure(w, "analyse", PostId(w, job)), job,
                       [status |-> "skipped", error |-> ErrorText])
             w2 == updateUI(saveJobQueue(w1))
         IN [w2 EXCEPT !.tasks = AddTo(@, Task("pq", 0, NULL))]

\* the catch block of confirmApplication
confirmCatch(w) ==
    LET w1 == Assign(w, w.currentJob,
                   [status |-> "skipped", error |-> ErrorText])
    IN updateUI(saveJobQueue(w1))

\* confirmApplication after its try block
confirmRest(w) ==
    LET w1 == updateButtons([w EXCEPT !.isProcessing = TRUE])
    IN [w1 EXCEPT !.tasks = AddTo(@, Task("pq", 0, NULL))]

\* submitApplication after the navigation: executeScript
submitInject(w, id, ok) ==
    IF ok THEN [w EXCEPT !.pageScripts = AddTo(@, Script("submit", id))]
    ELSE confirmCatch(JobFailure(w, "submit", id))

\* submitApplication with the rest of confirmApplication, up to the 3 s wait
\* that follows a navigation.  ok: the chrome.tabs/scripting call did not throw
submitApplication(w, job, ok) ==
    LET id == PostId(w, job)
        w1 == [w EXCEPT !.submitCount[id] = Min({@ + 1, MaxSubmits})]
    IN IF w1.tabUrl # Url("job", id)
       THEN IF ok
            THEN [bgWake(w1) EXCEPT !.tabUrl = Url("job", id),
                                    !.pageScripts = EmptyBag,
                            !.tasks = AddTo(@, Task("submit", id, NULL))]
            ELSE confirmRest(confirmCatch(JobFailure(w1, "submit", id)))
       ELSE confirmRest(submitInject(w1, id, ok))

confirmApplication(w, ok) ==
    IF w.currentJob.k = "null" THEN w
    ELSE LET w1 == hideReviewSection(w)
             w2 == Assign(w1, w1.currentJob, [status |-> "applying"])
             w3 == updateUI(saveJobQueue(w2))
         IN submitApplication(w3, w3.currentJob, ok)

declineApplication(w) ==
    IF w.currentJob.k = "null" THEN w
    ELSE LET w1 == hideReviewSection(w)
             w2 == Assign(w1, w1.currentJob, [status |-> "skipped"])
             w3 == updateUI(saveJobQueue(w2))
             w4 == updateButtons([w3 EXCEPT !.isProcessing = TRUE])
         IN [w4 EXCEPT !.tasks = AddTo(@, Task("pq", 0, NULL))]

\* The injected function runs at once: off the search page it navigates there
\* and returns; on it, it reports the job cards after 2 s.  Then the popup
\* adds its listener for the messages of the injected scripts.
injectJobScrapingScript(w) ==
    LET w1 == IF w.tabUrl.site # "search"
              THEN [bgWake(w) EXCEPT !.tabUrl = Url("search", 0),
                                     !.pageScripts = EmptyBag]
              ELSE [w EXCEPT !.pageScripts = AddTo(@, Script("list", 0))]
    IN [w1 EXCEPT !.listeners = @ + 1]

\* A start that validates neither the settings nor the tab
startUnchecked(w, injectOk) ==
    injectJobScrapingScript(updateButtons(updateBackgroundState(
        [w EXCEPT !.isProcessing = TRUE, !.isPaused = FALSE])))

\* injectOk: chrome.scripting.executeScript did not throw
startApplication(w, injectOk) ==
    IF ~w.settings THEN w
    ELSE IF w.tabUrl.site = "other" THEN w
    ELSE LET w1 == [w EXCEPT !.isProcessing = TRUE, !.isPaused = FALSE]
             w2 == updateButtons(updateBackgroundState(w1))
         IN IF injectOk THEN injectJobScrapingScript(w2)
            ELSE updateBackgroundState(updateButtons(
                     Failure([w2 EXCEPT !.isProcessing = FALSE])))

pauseApplication(w) ==
    updateButtons(updateBackgroundState(
        [w EXCEPT !.isPaused = TRUE, !.isProcessing = FALSE]))

processSpecificJob(w, index, navOk) ==
    IF w.jobQueue[index].status # "pending" THEN w
    ELSE LET w1 == [w EXCEPT !.currentJob = QRef(Gen(w), index),
                             !.isProcessing = TRUE]
         IN processJobQueue(updateButtons(updateBackgroundState(w1)), navOk)

\* chrome.storage.local.clear() takes the settings and the stored
\* applicationState with the queue.
clearAllData(w) ==
    updateUI([w EXCEPT !.stJobQueue = <<>>, !.stAppState = <<>>,
                       !.settings = FALSE, !.failed = {},
                       !.oldQueues = Append(@, w.jobQueue),
                       !.jobQueue = <<>>])

\* restoreApplicationState: GET_APPLICATION_STATE answers
\* {state: applicationState}
restoreApplicationState(w) ==
    LET w0 == bgWake(w)
        state == bgOnGet(w)
        w1 == [w0 EXCEPT !.isProcessing = state.isProcessing,
                         !.currentJob = FromMessage(state.currentJob)]
    IN IF w1.isProcessing /\ w1.currentJob.k # "null"
       THEN [w1 EXCEPT !.tasks = AddTo(@, Task("restore", 0, NULL))]
       ELSE w1

\* new JobApplier(): the constructor and init()
init(w) ==
    LET w1 == [w EXCEPT !.popup = TRUE, !.currentJob = NULL,
                        !.isProcessing = FALSE, !.isPaused = FALSE,
                        !.jobQueue = w.stJobQueue]
    IN updateUI(restoreApplicationState(w1))

\* The popup page is destroyed: its objects, timers, requests and listeners
\* end with it.
destroyPopup(w) ==
    [w EXCEPT !.popup = FALSE, !.jobQueue = <<>>, !.oldQueues = <<>>,
              !.currentJob = NULL, !.isProcessing = FALSE,
              !.isPaused = FALSE, !.reviewVisible = FALSE,
              !.btnProcessing = FALSE, !.listeners = 0, !.tasks = EmptyBag]

\* The listener of setupBackgroundMessageListener, for CONTINUE_PROCESSING
onBackgroundMessage(w, job, navOk) ==
    IF job = <<>> THEN w
    ELSE continueProcessing(
             [w EXCEPT !.currentJob = FromMessage(job),
                       !.isProcessing = TRUE],
             navOk)

\* One listener of injectJobScrapingScript handling one message: it passes on
\* message.jobs, message.jobId, message.description and message.success only.
onContentMessage(w, message, navOk) ==
    IF message.type = "JOBS_SCRAPED"
    THEN handleScrapedJobs(w, message.jobs, navOk)
    ELSE IF message.type = "JOB_DESCRIPTION_SCRAPED"
    THEN handleJobDescription(w, message.jobId, message.description, "none")
    ELSE IF message.type = "APPLICATION_SUBMITTED"
    THEN handleApplicationSubmitted(w, message.jobId, message.success, "none")
    ELSE w

RECURSIVE eachListener(_, _, _, _)
eachListener(w, n, message, navOk) ==
    IF n = 0 THEN w
    ELSE eachListener(onContentMessage(w, message, navOk), n - 1,
                      message, navOk)

RECURSIVE eachScrapedJobsSync(_, _, _)
eachScrapedJobsSync(w, n, newJobs) ==
    IF n = 0 THEN w
    ELSE eachScrapedJobsSync(handleScrapedJobsSync(w, newJobs), n - 1, newJobs)

\* chrome.runtime.onMessage in the popup: every listener registered by
\* injectJobScrapingScript is called with the message, in turn; a handler that
\* awaits resumes after the other listeners have been called.
popupContentMessage(w, message, navOk) ==
    IF ~w.popup \/ w.listeners = 0 THEN w
    ELSE IF message.type = "JOBS_SCRAPED"
            /\ message.jobs # <<>> /\ uniqueJobs(w, message.jobs) # <<>>
    THEN handleScrapedJobsRest(
             eachScrapedJobsSync(w, w.listeners, message.jobs), navOk)
    ELSE eachListener(w, w.listeners, message, navOk)

\* A message of an injected script reaches the background and the popup.
deliverContentMessage(w, message, navOk) ==
    popupContentMessage(bgWake(w), message, navOk)

\* --------------------------------------------------------------- actions
Batches == UNION {[1..n -> Ids] : n \in 0..MaxBatch}

JobsOf(batch) == [i \in DOMAIN batch |-> NewJob(batch[i])]

\* The extension is installed and its popup is open for the first time: the
\* storage is empty, the background holds its initial applicationState, and
\* the active tab shows the LinkedIn job search or another site.
Init ==
    /\ popup = TRUE
    /\ jobQueue = <<>>
    /\ oldQueues = <<>>
    /\ currentJob = NULL
    /\ isProcessing = FALSE
    /\ isPaused = FALSE
    /\ reviewVisible = FALSE
    /\ btnProcessing = FALSE
    /\ listeners = 0
    /\ tasks = EmptyBag
    /\ tabUrl \in {Url("other", 0), Url("search", 0)}
    /\ pageScripts = EmptyBag
    /\ bgState = InitialApplicationState
    /\ bgTimers = 0
    /\ bgBoot = Running
    /\ stJobQueue = <<>>
    /\ stAppState = <<>>
    /\ settings = FALSE
    /\ submitCount = [id \in Ids |-> 0]
    /\ failed = {}
    /\ faults = 0
    /\ clicks = 0

\* The user opens the popup again (DOMContentLoaded).
OpenPopup == ~popup /\ Becomes(Click(init(World)))

\* The popup closes (it loses focus, or the user closes it).
ClosePopup == popup /\ Becomes(Click(destroyPopup(World)))

\* saveSettings with all four fields filled in
SaveSettings == popup /\ ~settings /\ Becomes([World EXCEPT !.settings = TRUE])

\* Start is enabled while the last updateButtons saw isProcessing false.
ClickStart ==
    /\ popup /\ ~btnProcessing
    /\ \E injectOk \in BOOLEAN :
          Becomes(Click(startApplication(World, injectOk)))

\* Pause is shown while the last updateButtons saw isProcessing true.
ClickPause == popup /\ btnProcessing /\ Becomes(Click(pauseApplication(World)))

\* Confirm and Decline are the buttons of the review section.
ClickConfirm ==
    /\ popup /\ reviewVisible
    /\ \E ok \in BOOLEAN : Becomes(Click(confirmApplication(World, ok)))

ClickDecline ==
    popup /\ reviewVisible /\ Becomes(Click(declineApplication(World)))

\* The "Process Job" button of a job of the list
ClickProcessJob ==
    /\ popup
    /\ \E index \in DOMAIN jobQueue : \E navOk \in BOOLEAN :
          /\ jobQueue[index].status = "pending"
          /\ Becomes(Click(processSpecificJob(World, index, navOk)))

\* "Clear data", confirmed in the dialog
ClickClear == popup /\ Becomes(Click(clearAllData(World)))

\* setTimeout(() => this.processJobQueue(), ...)
TimerProcessJobQueue ==
    /\ BagIn(Task("pq", 0, NULL), tasks)
    /\ \E navOk \in BOOLEAN :
          Becomes(processJobQueue(
              [World EXCEPT !.tasks = RemoveFrom(@, Task("pq", 0, NULL))],
              navOk))

\* setTimeout(() => this.continueProcessing(), 1000) of restoreApplicationState
TimerRestore ==
    /\ BagIn(Task("restore", 0, NULL), tasks)
    /\ \E navOk \in BOOLEAN :
          Becomes(continueProcessing(
              [World EXCEPT !.tasks = RemoveFrom(@, Task("restore", 0, NULL))],
              navOk))

\* The 3 s timeout of scrapeJobDescription: executeScript puts the description
\* scraper into the page the tab shows; a rejection is not caught.
TimerInject ==
    \E t \in BagToSet(tasks) : \E ok \in BOOLEAN :
        /\ t.t = "inject"
        /\ Becomes(IF ok
                   THEN [World EXCEPT
                            !.tasks = RemoveFrom(@, t),
                            !.pageScripts = AddTo(@, Script("desc", t.id))]
                   ELSE JobFailure(
                            [World EXCEPT !.tasks = RemoveFrom(@, t)],
                            "inject", t.id))

\* The OpenAI request of analyzeJobWithAI ends.
AiResponse ==
    \E t \in BagToSet(tasks) : \E ok \in BOOLEAN :
        /\ t.t = "ai"
        /\ Becomes(analyzeJobWithAIResult(
               [World EXCEPT !.tasks = RemoveFrom(@, t)], t.ref, ok))

\* The 3 s wait of submitApplication ends.
TimerSubmit ==
    \E t \in BagToSet(tasks) : \E ok \in BOOLEAN :
        /\ t.t = "submit"
        /\ Becomes(confirmRest(submitInject(
               [World EXCEPT !.tasks = RemoveFrom(@, t)], t.id, ok)))

\* The job scraper in the page sends JOBS_SCRAPED.
PageListResult ==
    /\ BagIn(Script("list", 0), pageScripts)
    /\ \E batch \in Batches : \E navOk \in BOOLEAN :
          Becomes(deliverContentMessage(
              [World EXCEPT
                  !.pageScripts = RemoveFrom(@, Script("list", 0))],
              [type |-> "JOBS_SCRAPED", jobs |-> JobsOf(batch)], navOk))

\* The description scraper in the page sends JOB_DESCRIPTION_SCRAPED, with the
\* description or with an error.
PageDescResult ==
    \E s \in BagToSet(pageScripts) : \E found \in BOOLEAN :
        /\ s.t = "desc"
        /\ Becomes(deliverContentMessage(
               LET w == [World EXCEPT !.pageScripts = RemoveFrom(@, s)]
               IN IF found THEN w ELSE JobFailure(w, "extract", s.id),
               [type |-> "JOB_DESCRIPTION_SCRAPED", jobId |-> s.id,
                description |-> IF found THEN "text" ELSE "none",
                error |-> IF found THEN "none"
                          ELSE ErrorText],
               TRUE))

\* The submission script in the page sends APPLICATION_SUBMITTED.
PageSubmitResult ==
    \E s \in BagToSet(pageScripts) : \E success \in BOOLEAN :
        /\ s.t = "submit"
        /\ Becomes(deliverContentMessage(
               LET w == [World EXCEPT !.pageScripts = RemoveFrom(@, s)]
               IN IF success THEN w ELSE JobFailure(w, "submit", s.id),
               [type |-> "APPLICATION_SUBMITTED", jobId |-> s.id,
                success |-> success,
                error |-> IF success THEN "none" ELSE ErrorText],
               TRUE))

\* The 5 s timeout of the background fires: CONTINUE_PROCESSING is sent, and
\* reaches the popup if there is one.
BgTimerFire ==
    /\ bgTimers > 0
    /\ \E navOk \in BOOLEAN :
          LET w == [World EXCEPT !.bgTimers = @ - 1]
          IN Becomes(IF w.popup
                     THEN onBackgroundMessage(w, w.bgState.currentJob, navOk)
                     ELSE w)

\* The browser stops the service worker once it has been idle for 30 s: the
\* timers of the extension (1 s to 5 s) have fired and no script or request is
\* pending.
BgTerminate ==
    /\ bgBoot = Running /\ bgTimers = 0
    /\ tasks = EmptyBag /\ pageScripts = EmptyBag
    /\ Becomes(bgTerminate(World))

\* chrome.tabs.onUpdated of some tab of the browser starts the stopped worker.
BgWake == bgBoot = Stopped /\ Becomes(bgWake(World))

Next ==
    \/ OpenPopup
    \/ ClosePopup
    \/ SaveSettings
    \/ ClickStart
    \/ ClickPause
    \/ ClickConfirm
    \/ ClickDecline
    \/ ClickProcessJob
    \/ ClickClear
    \/ TimerProcessJobQueue
    \/ TimerRestore
    \/ TimerInject
    \/ AiResponse
    \/ TimerSubmit
    \/ PageListResult
    \/ PageDescResult
    \/ PageSubmitResult
    \/ BgTimerFire
    \/ BgTerminate
    \/ BgWake

Spec == Init /\ [][Next]_vars

\* The timers of the popup and of the background fire, the OpenAI request
\* ends and the scripts in the page report; the user is free to do nothing.
Fairness ==
    /\ WF_vars(TimerProcessJobQueue)
    /\ WF_vars(TimerRestore)
    /\ WF_vars(TimerInject)
    /\ WF_vars(AiResponse)
    /\ WF_vars(TimerSubmit)
    /\ WF_vars(PageListResult)
    /\ WF_vars(PageDescResult)
    /\ WF_vars(PageSubmitResult)
    /\ WF_vars(BgTimerFire)

FairSpec == Spec /\ Fairness

\* ------------------------------------------- the handlers on their inputs
\* The message handlers as functions of their inputs: a popup that has been
\* started and listens, with any stored queue, while the job scraper runs in
\* the page; JOBS_SCRAPED arrives with any batch, and the background receives
\* UPDATE_APPLICATION_STATE with any fields.
StoredStatuses == {"pending", "applied", "skipped"}

StoredJobs ==
    {[NewJob(id) EXCEPT !.status = st] : id \in Ids, st \in StoredStatuses}

StoredQueues == UNION {[1..n -> StoredJobs] : n \in 0..MaxQueue}

\* message.state of UPDATE_APPLICATION_STATE, with any of its fields
FullStates ==
    [isProcessing : BOOLEAN,
     currentJob : {<<>>} \cup {<<id>> : id \in Ids},
     jobQueue : {<<>>, <<1>>, <<1, 2>>}]

PartialStates ==
    {[f \in S |-> full[f]] :
        full \in FullStates, S \in SUBSET DOMAIN InitialApplicationState}

HandlerInit ==
    /\ popup = TRUE
    /\ jobQueue \in StoredQueues
    /\ oldQueues = <<>>
    /\ currentJob = NULL
    /\ isProcessing = TRUE
    /\ isPaused = FALSE
    /\ reviewVisible = FALSE
    /\ btnProcessing = TRUE
    /\ listeners \in 1..MaxListeners
    /\ tasks = EmptyBag
    /\ tabUrl = Url("search", 0)
    /\ pageScripts = SetToBag({Script("list", 0)})
    /\ bgState = [isProcessing |-> TRUE, currentJob |-> <<>>,
                  jobQueue |-> PostIds(jobQueue)]
    /\ bgTimers = 0
    /\ bgBoot = Running
    /\ stJobQueue = jobQueue
    /\ stAppState = <<bgState>>
    /\ settings = TRUE
    /\ submitCount = [id \in Ids |-> 0]
    /\ failed = {}
    /\ faults = 0
    /\ clicks = 0

\* The background receives UPDATE_APPLICATION_STATE.
UpdateMessage == \E state \in PartialStates : Becomes(bgOnUpdate(World, state))

HandlerNext == PageListResult \/ UpdateMessage \/ BgTimerFire

HandlerSpec == HandlerInit /\ [][HandlerNext]_vars


\* ------------------------------------------------------------ properties
\* Counts and sets the properties below are stated with
Injects(b, id) == CopiesIn(Task("inject", id, NULL), b)

Timers(b) == CopiesIn(Task("pq", 0, NULL), b)

Analyses(w, id) ==
    {t \in BagToSet(w.tasks) : t.t = "ai" /\ PostId(w, t.ref) = id}

WithStatus(queue, status) ==
    {i \in DOMAIN queue : queue[i].status = status}

\* Description extraction of job id has started and has not reported.
ExtractionOutstanding(id) ==
    Injects(tasks, id) > 0 \/ BagIn(Script("desc", id), pageScripts)

\* An OpenAI request for job id is pending.
AnalysisOutstanding(id) == Analyses(World, id) # {}

\* Submission of job id has started and no result has been handled: the wait
\* or the script is pending, or the job is still 'applying'.
SubmissionOutstanding(id) ==
    \/ BagIn(Task("submit", id, NULL), tasks)
    \/ BagIn(Script("submit", id), pageScripts)
    \/ \E i \in WithStatus(jobQueue, "applying") : jobQueue[i].post_id = id

Outstanding ==
    {id \in Ids : \/ ExtractionOutstanding(id)
                  \/ AnalysisOutstanding(id)
                  \/ SubmissionOutstanding(id)}

\* The step keeps the popup and its jobQueue array: index i names the same
\* Job before and after it.
SameArray == popup /\ popup' /\ Len(oldQueues') = Len(oldQueues)

Kept == IF SameArray THEN DOMAIN jobQueue \cap DOMAIN jobQueue' ELSE {}

\* The step is no operation of the user.
NoClick == clicks' = clicks

\* The page's description scraper for job id reports a failure to a popup
\* that listens.
DescriptionFailed(id) ==
    /\ popup /\ listeners > 0 /\ NoClick
    /\ CopiesIn(Script("desc", id), pageScripts')
           < CopiesIn(Script("desc", id), pageScripts)
    /\ faults' = faults + 1

\* The page's submission script for job id reports success to a popup that
\* listens.
SubmissionSucceeded(id) ==
    /\ popup /\ listeners > 0 /\ NoClick
    /\ CopiesIn(Script("submit", id), pageScripts')
           < CopiesIn(Script("submit", id), pageScripts)
    /\ faults' = faults /\ tasks' = tasks /\ tabUrl' = tabUrl

\* The 1 s timeout of restoreApplicationState fires in the reopened popup,
\* and no chrome call fails.
Resumes ==
    /\ BagIn(Task("restore", 0, NULL), tasks)
    /\ ~BagIn(Task("restore", 0, NULL), tasks')
    /\ popup' /\ faults' = faults

\* C1: single-flight: at most one Job has a description extraction, an AI
\* analysis or a submission outstanding.
C1_SingleFlight == Cardinality(Outstanding) <= 1

\* C2: no two Jobs in jobQueue share a post_id.
C2_UniquePostIds ==
    \A i, j \in DOMAIN jobQueue :
        i # j => jobQueue[i].post_id # jobQueue[j].post_id

StatusTable ==
    {<<"pending", "reviewing">>, <<"pending", "skipped">>,
     <<"reviewing", "applying">>, <<"reviewing", "skipped">>,
     <<"applying", "applied">>, <<"applying", "skipped">>}

\* C3: every change of a Job's status is a transition of the table; applied
\* and skipped are final.
C3_StatusTransitions ==
    [][\A i \in Kept :
          \/ jobQueue'[i].status = jobQueue[i].status
          \/ <<jobQueue[i].status, jobQueue'[i].status>> \in StatusTable]_vars

\* C4: a Job that reaches reviewing leaves isProcessing false, and while it
\* awaits the decision no step other than an operation of the user changes
\* currentJob or starts the extraction of a Job.
C4_ReviewPauses ==
    [][(popup /\ popup' /\ NoClick) =>
          /\ \A i \in Kept :
                (jobQueue[i].status # "reviewing"
                    /\ jobQueue'[i].status = "reviewing") => ~isProcessing'
          /\ (reviewVisible /\ WithStatus(jobQueue, "reviewing") # {}) =>
                /\ currentJob' = currentJob
                /\ \A id \in Ids : Injects(tasks', id) <= Injects(tasks, id)
      ]_vars

\* C5: submitApplication starts for a Job only on a confirm issued while that
\* Job is the current Job, in status reviewing, with its match score and its
\* cover letter.
C5_ApprovalRequired ==
    [][\A id \in Ids :
          submitCount'[id] # submitCount[id] =>
              /\ currentJob.k = "q"
              /\ Deref(World, currentJob).post_id = id
              /\ Deref(World, currentJob).status = "reviewing"
              /\ Deref(World, currentJob).matchScore # <<>>
              /\ Deref(World, currentJob).coverLetter # "none"]_vars

\* C6: for every post_id, submitApplication starts at most once over a run.
C6_NoDuplicateApplications == \A id \in Ids : submitCount[id] <= 1

\* C7: the reopened popup resumes the Job the background names as currentJob,
\* at the stage of its stored status (extraction if pending, the review if
\* reviewing, submission if applying), and starts no other Job.
C7_ResumesSameJob ==
    [][(Resumes /\ currentJob.k = "copy"
            /\ FindJob(World, currentJob.i).k # "null"
            /\ Deref(World, FindJob(World, currentJob.i)).status
                   \in {"pending", "reviewing", "applying"}) =>
          LET id == currentJob.i
              status == Deref(World, FindJob(World, id)).status
          IN /\ status = "pending" => Injects(tasks', id) > Injects(tasks, id)
             /\ status = "reviewing" => reviewVisible'
             /\ status = "applying" =>
                    \/ BagIn(Task("submit", id, NULL), tasks')
                    \/ BagIn(Script("submit", id), pageScripts')
             /\ \A other \in Ids \ {id} :
                    Injects(tasks', other) <= Injects(tasks, other)]_vars

\* C8: when the extraction of a pending Job reports a failure, the Job becomes
\* skipped with its error set, no analysis is started for it, and
\* processJobQueue is scheduled for the next pending Job.
C8_ExtractionFailureSkips ==
    [][\A id \in Ids :
          (DescriptionFailed(id) /\ FindJob(World, id).k # "null"
               /\ Deref(World, FindJob(World, id)).status = "pending") =>
              LET i == FindJob(World, id).i
              IN /\ i \in Kept
                 /\ jobQueue'[i].status = "skipped"
                 /\ jobQueue'[i].error # "none"
                 /\ Cardinality(Analyses(World', id))
                        <= Cardinality(Analyses(World, id))
                 /\ Timers(tasks') > Timers(tasks)]_vars

\* C9: declining the current Job in review sets it to skipped, starts no
\* submission, sets isProcessing, and schedules processJobQueue, which then
\* selects the first pending Job if there is one.
C9_DeclineSkipsAndResumes ==
    (popup /\ reviewVisible /\ currentJob = QRef(Gen(World), currentJob.i)
         /\ currentJob.i \in WithStatus(jobQueue, "reviewing")) =>
        LET declined == declineApplication(World)
            pending == WithStatus(declined.jobQueue, "pending")
            fired == processJobQueue(
                         [declined EXCEPT
                             !.tasks = RemoveFrom(@, Task("pq", 0, NULL))],
                         TRUE)
        IN /\ declined.jobQueue[currentJob.i].status = "skipped"
           /\ declined.submitCount = submitCount
           /\ declined.isProcessing
           /\ Timers(declined.tasks) > Timers(tasks)
           /\ pending # {} =>
                  /\ fired.currentJob = QRef(Gen(World), Min(pending))
                  /\ Injects(fired.tasks,
                             jobQueue[Min(pending)].post_id) > 0

\* C10: a confirmed Job whose submission reports success becomes applied with
\* its appliedDate set, and an applied Job stays applied.
C10_SuccessApplies ==
    [][/\ \A id \in Ids :
             (SubmissionSucceeded(id) /\ FindJob(World, id).k # "null"
                  /\ Deref(World, FindJob(World, id)).status = "applying") =>
                 /\ FindJob(World, id).i \in Kept
                 /\ jobQueue'[FindJob(World, id).i].status = "applied"
                 /\ jobQueue'[FindJob(World, id).i].appliedDate
       /\ \A i \in Kept :
             jobQueue[i].status = "applied" =>
                 jobQueue'[i].status = "applied"]_vars

\* The submission of job id fails in this step.
NewlyFailed(id) ==
    id \in FailedAt(failed', "submit") /\ id \notin FailedAt(failed, "submit")

\* submitApplication for job id throws in the popup (the navigation or the
\* injection is rejected).
SubmissionThrew(id) == popup /\ NewlyFailed(id) /\ pageScripts' = pageScripts

\* The page's submission script for job id reports success false to a popup
\* that listens.
SubmissionFailed(id) ==
    /\ popup /\ listeners > 0 /\ NoClick /\ NewlyFailed(id)
    /\ CopiesIn(Script("submit", id), pageScripts')
           < CopiesIn(Script("submit", id), pageScripts)

\* C11: a confirmed Job whose submission throws or is reported with success
\* false becomes skipped with its error set, and is never marked applied
\* afterwards.
C11_FailureSkips ==
    [][/\ \A id \in Ids :
             ((SubmissionThrew(id) \/ SubmissionFailed(id))
                  /\ FindJob(World, id).k # "null") =>
                 /\ FindJob(World, id).i \in Kept
                 /\ jobQueue'[FindJob(World, id).i].status = "skipped"
                 /\ jobQueue'[FindJob(World, id).i].error # "none"
       /\ \A i \in Kept :
             (jobQueue[i].post_id \in FailedAt(failed, "submit")
                  /\ jobQueue[i].status # "applied") =>
                 jobQueue'[i].status # "applied"]_vars

Terminal == {"applied", "skipped"}

\* The Job that r names is an element of the array this.jobQueue names now
\* (or, for an object received in a message, a Job of that post_id is) and
\* its status is not terminal.
NamesLiveJob(w, r) ==
    /\ r.k # "null"
    /\ r.k = "q" => r.g = Gen(w) /\ Deref(w, r).status \notin Terminal
    /\ r.k = "copy" =>
           /\ FindJob(w, r.i).k # "null"
           /\ Deref(w, FindJob(w, r.i)).status \notin Terminal

\* C12: isProcessing implies that currentJob names a Job of jobQueue whose
\* status is neither applied nor skipped, in the popup and in the background's
\* applicationState.
C12_ProcessingHasLiveJob ==
    /\ (popup /\ isProcessing) => NamesLiveJob(World, currentJob)
    /\ bgState.isProcessing =>
           /\ bgState.currentJob # <<>>
           /\ \E i \in DOMAIN bgState.jobQueue :
                  bgState.jobQueue[i] = bgState.currentJob[1]
           /\ \E i \in DOMAIN stJobQueue :
                  /\ stJobQueue[i].post_id = bgState.currentJob[1]
                  /\ stJobQueue[i].status \notin Terminal

\* The batches a results page can report when it also shows a post_id that
\* no Job has had so far
ScrapedBatches == UNION {[1..n -> 1..(MaxIds + 1)] : n \in 0..MaxBatch}

StoredIds(queue) == {queue[i].post_id : i \in DOMAIN queue}

\* The candidates of a batch whose post_id is not stored, in batch order
RECURSIVE Fresh(_, _)
Fresh(newJobs, stored) ==
    IF newJobs = <<>> THEN <<>>
    ELSE (IF Head(newJobs).post_id \in stored THEN <<>>
          ELSE <<Head(newJobs)>>) \o Fresh(Tail(newJobs), stored)

\* C13: handleScrapedJobs appends to jobQueue exactly the candidates of the
\* batch whose post_id is not stored yet, in batch order, after the existing
\* Jobs and without changing them; so does the delivery of a JOBS_SCRAPED
\* message to the listeners of the popup.  (The navigation to the first
\* pending Job, which processJobQueue starts after the append, succeeds.)
C13_AppendUnique ==
    popup =>
        \A batch \in ScrapedBatches :
            LET newJobs == JobsOf(batch)
                expected == jobQueue \o Fresh(newJobs, StoredIds(jobQueue))
                message == [type |-> "JOBS_SCRAPED", jobs |-> newJobs]
            IN /\ handleScrapedJobs(World, newJobs, TRUE).jobQueue = expected
               /\ listeners > 0 =>
                      deliverContentMessage(World, message, TRUE).jobQueue
                          = expected

\* A batch has been handled that appended Job 2 after the stored Job 1; the
\* store holds Jobs 1 and 2 now, and of a batch [1, 3] only Job 3 would be
\* appended.
C13_Witness ==
    /\ popup /\ listeners > 0 /\ pageScripts = EmptyBag
    /\ Len(jobQueue) = 2 /\ StoredIds(jobQueue) = {1, 2}
    /\ jobQueue[1].status # "pending" /\ Injects(tasks, 2) = 1
    /\ handleScrapedJobs(World, JobsOf(<<1, 3>>), TRUE).jobQueue
           = jobQueue \o <<NewJob(3)>>

\* C14: clearAllData empties the job store and resets the application state:
\* after it the popup has isProcessing false, isPaused false and currentJob
\* null, and the background's applicationState (what GET_APPLICATION_STATE
\* answers) is the initial one, with no jobs.
C14_ClearResets ==
    popup =>
        LET cleared == clearAllData(World)
        IN /\ cleared.jobQueue = <<>>
           /\ cleared.stJobQueue = <<>>
           /\ ~cleared.isProcessing
           /\ ~cleared.isPaused
           /\ cleared.currentJob = NULL
           /\ cleared.bgState = InitialApplicationState

\* The state as startApplication finds it when the stored settings are
\* complete or not (s) and the active tab shows url
Found(s, url) == [World EXCEPT !.settings = s, !.tabUrl = url]

\* C15: startApplication with one of keywords, criteria, cv and llmToken
\* missing, or with the active tab off linkedin.com, starts nothing: it
\* changes neither isProcessing, isPaused, currentJob nor a Job, sends nothing
\* to the background and injects no script.
C15_PreflightRefuses ==
    popup =>
        \A s \in BOOLEAN : \A url \in {tabUrl, Url("other", 0)} :
            (~s \/ url.site = "other") =>
                \A injectOk \in BOOLEAN :
                    LET w == startApplication(Found(s, url), injectOk)
                    IN /\ w.isProcessing = isProcessing
                       /\ w.isPaused = isPaused
                       /\ w.currentJob = currentJob
                       /\ w.jobQueue = jobQueue
                       /\ w.oldQueues = oldQueues
                       /\ w.stJobQueue = stJobQueue
                       /\ w.bgState = bgState
                       /\ w.bgTimers = bgTimers
                       /\ w.stAppState = stAppState
                       /\ w.pageScripts = pageScripts
                       /\ w.listeners = listeners
                       /\ w.tasks = tasks
                       /\ w.tabUrl = url

\* Start has been clicked in a popup whose settings are incomplete, with Jobs
\* in the queue, and has started nothing.
C15_Witness ==
    /\ popup /\ ~settings /\ clicks > 0 /\ jobQueue # <<>>
    /\ ~btnProcessing
    /\ startApplication(World, TRUE) = World

\* A pending Job has been selected: its description extraction is under way.
PendingSelected ==
    \E i \in WithStatus(jobQueue, "pending") :
        ExtractionOutstanding(jobQueue[i].post_id)

\* C16: a failure while processing a Job (of the navigation, of the delayed
\* script injection, of the extraction, of the analysis or of the submission)
\* does not end the pipeline: while the popup is open, not paused, and a
\* pending Job remains, a pending Job is eventually selected.
C16_FailureContinues ==
    (popup /\ failed # {} /\ ~isPaused
        /\ WithStatus(jobQueue, "pending") # {})
    ~> (\/ PendingSelected
        \/ ~popup
        \/ isPaused
        \/ WithStatus(jobQueue, "pending") = {})

\* The applicationState the background holds, or will hold once the stopped
\* worker has been started again: what it has saved
Canonical(w) ==
    IF w.bgBoot = Running THEN w.bgState
    ELSE IF w.stAppState = <<>> THEN InitialApplicationState
    ELSE w.stAppState[1]

\* C17: while no popup is attached, no Job changes, no extraction, analysis or
\* submission starts, and the background's applicationState stays as it is: a
\* CONTINUE_PROCESSING that nobody receives changes nothing, so isProcessing
\* stays true until a popup attaches.
C17_BackgroundIdle ==
    [][(~popup /\ ~popup') =>
          /\ stJobQueue' = stJobQueue
          /\ tasks' = EmptyBag
          /\ \A s \in BagToSet(pageScripts') :
                 CopiesIn(s, pageScripts') <= CopiesIn(s, pageScripts)
          /\ tabUrl' = tabUrl
          /\ submitCount' = submitCount
          /\ stAppState' = stAppState
          /\ Canonical(World)' = Canonical(World)]_vars

\* C18: UPDATE_APPLICATION_STATE merges field by field: after the listener
\* each field of the message has the message's value and each other field its
\* previous value; the merged state is in storage; and a CONTINUE_PROCESSING
\* timeout is armed only if the merged state has isProcessing true.
C18_UpdateMerges ==
    bgBoot = Running =>
        \A state \in PartialStates :
            LET w == bgOnUpdate(World, state)
            IN /\ \A f \in DOMAIN state : w.bgState[f] = state[f]
               /\ \A f \in DOMAIN bgState \ DOMAIN state :
                      w.bgState[f] = bgState[f]
               /\ w.stAppState = <<w.bgState>>
               /\ w.bgTimers >= bgTimers
               /\ w.bgTimers > bgTimers => w.bgState.isProcessing

\* An update with currentJob alone has been merged into the state that a
\* start had sent: isProcessing and jobQueue are those of the start,
\* currentJob that of the update; the merged state is saved and the timeout
\* is armed.
C18_Witness ==
    /\ bgBoot = Running
    /\ bgState = [isProcessing |-> TRUE, currentJob |-> <<2>>,
                  jobQueue |-> PostIds(jobQueue)]
    /\ jobQueue # <<>> /\ \A i \in DOMAIN jobQueue : jobQueue[i].post_id = 1
    /\ stAppState = <<bgState>>
    /\ bgTimers = 1

\* C19: what has been acknowledged is in storage: the stored jobQueue is the
\* popup's jobQueue whenever a handler of the popup has returned, and the
\* stored applicationState is the one the running background holds once it
\* has acknowledged an update, so that stopping either context loses nothing.
C19_Durable ==
    /\ popup => stJobQueue = jobQueue
    /\ (bgBoot = Running /\ bgState # InitialApplicationState) =>
           stAppState = <<bgState>>

\* The popup has been paused and not started since, and the step keeps it so.
StaysPaused == popup /\ popup' /\ isPaused /\ isPaused'

\* The step makes a pending Job the current Job that was not it before.
NewlySelected ==
    /\ currentJob'.k # "null"
    /\ \/ currentJob.k = "null"
       \/ PostId(World', currentJob') # PostId(World, currentJob)
    /\ \E i \in WithStatus(jobQueue', "pending") :
          jobQueue'[i].post_id = PostId(World', currentJob')

\* The step starts the description extraction of a Job.
ExtractionStarted ==
    \E id \in Ids : Injects(tasks', id) > Injects(tasks, id)

\* The OpenAI request t ends in this step.
AnalysisEnds(t) ==
    /\ NoClick /\ t.t = "ai"
    /\ CopiesIn(t, tasks') < CopiesIn(t, tasks)

\* C20: pause is cooperative: from pauseApplication until the next
\* startApplication no pending Job is newly selected and no extraction is
\* started; pauseApplication itself ends no extraction, analysis or submission
\* in flight, and their results are still applied to their Jobs: the
\* description that arrives starts the analysis, the analysis that ends makes
\* the Job reviewing or skipped, the submission that succeeds makes it applied.
C20_PauseCooperative ==
    [][/\ StaysPaused => (~NewlySelected /\ ~ExtractionStarted)
       /\ (popup /\ ~isPaused /\ isPaused') =>
              (tasks' = tasks /\ pageScripts' = pageScripts)
       /\ StaysPaused =>
              /\ \A t \in BagToSet(tasks) :
                    (AnalysisEnds(t) /\ t.ref.g = Gen(World)
                         /\ t.ref.i \in Kept
                         /\ jobQueue[t.ref.i].status = "pending") =>
                        jobQueue'[t.ref.i].status
                            \in {"reviewing", "skipped"}
              /\ \A id \in Ids :
                    (SubmissionSucceeded(id)
                         /\ FindJob(World, id).k # "null"
                         /\ FindJob(World, id).i \in Kept
                         /\ Deref(World, FindJob(World, id)).status
                                = "applying") =>
                        jobQueue'[FindJob(World, id).i].status = "applied"
      ]_vars

\* The Jobs whose description extraction the handler's result w has started
StartedBy(w) ==
    {id \in Ids : Injects(w.tasks, id) > Injects(tasks, id)}

\* C21: processSpecificJob(i) on a pending Job starts the extraction of the
\* Job at index i and of no other Job, also when earlier Jobs of the queue are
\* pending.
C21_ProcessSpecific ==
    (popup /\ ~isPaused) =>
        \A index \in WithStatus(jobQueue, "pending") :
            StartedBy(processSpecificJob(World, index, TRUE))
                = {jobQueue[index].post_id}

\* The run has ended: nothing is processing and no Job is left to work on.
Drained ==
    /\ ~isProcessing
    /\ \A i \in DOMAIN jobQueue :
          jobQueue[i].status \notin {"pending", "reviewing", "applying"}

\* The pipeline waits for the user's decision on the Job in review.
AwaitingDecision == reviewVisible /\ WithStatus(jobQueue, "reviewing") # {}

\* C22: a started run ends: while the popup stays open and is not paused, a
\* popup in which startApplication has run and that is processing eventually
\* waits for the user's decision on a Job in review or reaches
\* isProcessing = false with no Job pending, reviewing or applying.
C22_DrainTerminates ==
    (popup /\ listeners > 0 /\ isProcessing /\ ~isPaused)
    ~> (Drained \/ AwaitingDecision \/ ~popup \/ isPaused)

\* The step is clearAllData.
Cleared == popup /\ popup' /\ Len(oldQueues') > Len(oldQueues)

\* Queue new holds the Jobs of queue old at their positions.
Extends(old, new) ==
    /\ Len(new) >= Len(old)
    /\ \A i \in DOMAIN old : new[i].post_id = old[i].post_id

\* The job scraper of the page reports in this step.
ListReported ==
    CopiesIn(Script("list", 0), pageScripts')
        < CopiesIn(Script("list", 0), pageScripts)

C24_FirstPending ==
    [][\A id \in Ids :
          Injects(tasks', id) > Injects(tasks, id) =>
              /\ popup' /\ currentJob'.k = "q" /\ currentJob'.g = Gen(World')
              /\ jobQueue'[currentJob'.i].post_id = id
              /\ jobQueue'[currentJob'.i].status = "pending"
              /\ \A j \in 1..(currentJob'.i - 1) :
                    jobQueue'[j].status # "pending"]_vars

\* The second Job of the queue has been selected after the first was decided.
C24_Witness ==
    /\ popup /\ Len(jobQueue) = 2
    /\ jobQueue[1].status \in {"applied", "skipped"}
    /\ jobQueue[2].status = "pending"
    /\ currentJob = QRef(Gen(World), 2)
    /\ Injects(tasks, jobQueue[2].post_id) = 1

\* C25: while the extraction or the analysis of a selected Job is under way,
\* the background names that Job as currentJob, in the state it answers
\* GET_APPLICATION_STATE with and in the state it has stored.
C25_SelectionPersisted ==
    \A id \in Ids :
        (popup /\ (ExtractionOutstanding(id) \/ AnalysisOutstanding(id))) =>
            /\ bgOnGet(World).currentJob = <<id>>
            /\ stAppState # <<>>
            /\ stAppState[1].currentJob = <<id>>

\* C26: once a popup operation has finished, the state the background answers
\* GET_APPLICATION_STATE with agrees with the popup on isProcessing and on
\* which Job is the current Job.
C26_PopupMirrors ==
    popup =>
        /\ bgOnGet(World).isProcessing = isProcessing
        /\ bgOnGet(World).currentJob
               = IF currentJob.k = "null" THEN <<>>
                 ELSE <<PostId(World, currentJob)>>

\* An analysis ends in this step and leaves its Job in review.
ReachedReview ==
    reviewVisible' /\ \E t \in BagToSet(tasks) : AnalysisEnds(t)

\* C27: the popup sets isProcessing to false only when the user pauses, when
\* a Job has just reached reviewing, when starting failed, or when no Job of
\* jobQueue is pending.
C27_StopsOnlyWhenDone ==
    [][(popup /\ popup' /\ isProcessing /\ ~isProcessing') =>
          \/ ~isPaused /\ isPaused'
          \/ ReachedReview
          \/ ~NoClick /\ faults' > faults
          \/ WithStatus(jobQueue', "pending") = {}]_vars

\* C28: every Job in review has a description that was extracted, a
\* matchScore in 0..100 and a cover letter.
C28_ReviewingComplete ==
    \A i \in WithStatus(jobQueue, "reviewing") :
        /\ jobQueue[i].description # "none"
        /\ jobQueue[i].matchScore # <<>>
        /\ jobQueue[i].matchScore[1] \in 0..100
        /\ jobQueue[i].coverLetter # "none"

\* C29: no Job is processed twice: an extraction is started only for a Job
\* that has no extraction or analysis under way and for which no step has
\* failed, one at a time; and an analysis is started only for a Job that has
\* none under way, one at a time.
C29_NoRetry ==
    [][\A id \in Ids :
          /\ Injects(tasks', id) > Injects(tasks, id) =>
                /\ Injects(tasks', id) = 1
                /\ ~ExtractionOutstanding(id)
                /\ ~AnalysisOutstanding(id)
                /\ \A r \in failed : r.id # id
          /\ \A t \in BagToSet(tasks') :
                (t.t = "ai" /\ PostId(World', t.ref) = id
                     /\ CopiesIn(t, tasks') > CopiesIn(t, tasks)) =>
                    /\ CopiesIn(t, tasks') = 1
                    /\ ~AnalysisOutstanding(id)]_vars

\* The user decides on the Job in review in this step.
Decided == popup /\ popup' /\ ~NoClick /\ reviewVisible /\ ~reviewVisible'

\* The timer of processJobQueue that a decision armed fires in this step (no
\* failure has happened, so that no failure has armed it).
TimerFired ==
    /\ popup /\ popup' /\ NoClick /\ faults = 0
    /\ Timers(tasks') < Timers(tasks)

\* C30: after a confirm or a decline the loop resumes, also when the user had
\* paused earlier: the decision leaves isProcessing true (or the 3 s wait of
\* the submission pending, which sets it), and when the timer of
\* processJobQueue fires in a popup that is processing and has a pending Job,
\* the extraction of a pending Job is started, unless the navigation fails.
C30_DecisionResumes ==
    [][/\ Decided =>
              \/ isProcessing' /\ Timers(tasks') > Timers(tasks)
              \/ \E id \in Ids : BagIn(Task("submit", id, NULL), tasks')
       /\ (TimerFired /\ isProcessing
               /\ WithStatus(jobQueue, "pending") # {}) =>
              (ExtractionStarted \/ faults' > faults)]_vars

\* C31: the popup is never marked as processing while it is paused.
C31_NotProcessingWhilePaused == popup => ~(isProcessing /\ isPaused)

\* C32: at most one Job of jobQueue is in review or being applied for.
C32_OneJobInDecision ==
    Cardinality(WithStatus(jobQueue, "reviewing")
                    \cup WithStatus(jobQueue, "applying")) <= 1

\* C33: a Job does not stay applying for ever: while a Job of the popup is
\* applying, its submission is under way (the 3 s wait or the script in the
\* page is pending), so that its result will arrive and be handled.
C33_ApplyingEnds ==
    popup =>
        \A i \in WithStatus(jobQueue, "applying") :
            \/ BagIn(Task("submit", jobQueue[i].post_id, NULL), tasks)
            \/ BagIn(Script("submit", jobQueue[i].post_id), pageScripts)

\* The messages the injected scripts send
ContentMessages ==
    {[type |-> "JOBS_SCRAPED", jobs |-> JobsOf(batch)] : batch \in Batches}
    \cup {[type |-> "JOB_DESCRIPTION_SCRAPED", jobId |-> id,
           description |-> "text", error |-> "none"] : id \in Ids}
    \cup {[type |-> "APPLICATION_SUBMITTED", jobId |-> id,
           success |-> success, error |-> "none"] :
             id \in Ids, success \in BOOLEAN}

\* C34: a popup that listens handles each message of the injected scripts
\* exactly once: what the delivery of a message does is what one handling of
\* it does, whatever the number of starts in that popup.
C34_HandledOnce ==
    (popup /\ listeners > 0) =>
        \A message \in ContentMessages :
            deliverContentMessage(World, message, TRUE)
                = onContentMessage(bgWake(World), message, TRUE)

\* The description scraper of job id reports the description it found.
DescriptionReported(id) ==
    /\ popup /\ popup' /\ NoClick
    /\ CopiesIn(Script("desc", id), pageScripts')
           < CopiesIn(Script("desc", id), pageScripts)
    /\ faults' = faults /\ tabUrl' = tabUrl

\* C35: in a popup in which startApplication has not run, the description
\* that the scraper reports for the pending Job this popup has selected is
\* handled: the analysis of the Job is under way afterwards.
C35_ResumedJobProgresses ==
    [][\A id \in Ids :
          (DescriptionReported(id) /\ listeners = 0
               /\ currentJob.k = "q" /\ PostId(World, currentJob) = id
               /\ FindJob(World, id).k # "null"
               /\ Deref(World, FindJob(World, id)).status = "pending") =>
              \E t \in BagToSet(tasks') :
                  t.t = "ai" /\ PostId(World', t.ref) = id]_vars

\* The 5 s timeout of the background fires in this step: CONTINUE_PROCESSING
\* is sent.
ContinueSent == bgTimers' < bgTimers

\* C36: CONTINUE_PROCESSING is sent only while the background holds
\* isProcessing = true, and no step of the background sets isProcessing in a
\* paused popup.
C36_ContinueOnlyWhileProcessing ==
    [][ContinueSent =>
          /\ bgState.isProcessing
          /\ (popup /\ isPaused /\ ~isProcessing) => ~isProcessing']_vars

\* The applicationState the storage holds, or the initial one
Persisted ==
    IF stAppState = <<>> THEN InitialApplicationState ELSE stAppState[1]

\* C37: when a message starts the stopped service worker,
\* GET_APPLICATION_STATE answers with the persisted state, and an
\* UPDATE_APPLICATION_STATE leaves the background with the persisted state
\* overwritten by the fields of the update.
C37_RestartKeepsUpdates ==
    bgBoot = Stopped =>
        /\ bgOnGet(World) = Persisted
        /\ \A state \in PartialStates :
              bgOnUpdate(World, state).bgState = Merge(Persisted, state)

\* C38: the popup's currentJob, when it is not null, is an element of the
\* array this.jobQueue names: not a copy received in a message, nor an element
\* of an array the popup has dropped.
C38_CurrentJobInQueue ==
    (popup /\ currentJob.k # "null") =>
        (currentJob.k = "q" /\ currentJob.g = Gen(World)
             /\ currentJob.i \in DOMAIN jobQueue)

====
